---- MODULE Spec2Model ----
(***************************************************************************)
(* Model of the social backend: the follow relation (accounts/views.py),   *)
(* the Like toggle and the personalised feed (post/views.py, models.py).   *)
(* Every view is modelled as the sequence of database statements it issues *)
(* (Django runs in autocommit mode: each ORM call is one statement).       *)
(***************************************************************************)
EXTENDS Integers, Sequences, FiniteSets, TLC

\* ---------------------------------------------------------------- bounds
NumUsers == 3        \* registered users have ids 1..NumUsers
MaxPosts == 1        \* posts ever created
MaxLikeId == 3       \* Like rows ever inserted
MaxTime == 8         \* the clock, in days
MaxEvents == 1       \* events that exist
MaxInterestId == 3   \* EventInterest rows ever inserted

\* ------------------------------------------------------ program constants
PopularLikes == 5    \* likes_count__gte=5
RecentDays == 7      \* timezone.timedelta(days=7)

Users == 1..NumUsers
\* request.user: 0 stands for a request that carries no valid token
Requesters == 0..NumUsers
\* the <int:user_id> / <int:pk> path parameter: one id more than exists
UserIds == 1..(NumUsers + 1)
PostIds == 1..(MaxPosts + 1)
\* the two request handlers that serve a pair of concurrent requests
Workers == {1, 2}
\* the <int:pk> of an event request: one id more than exists
EventIds == 1..(MaxEvents + 1)

VARIABLES
    following,   \* following[u]: the users u follows (User.following, many-to-many)
    posts,       \* Post rows: [id, user, created_at]
    likes,       \* Like rows: [id, user, post]
    nextLikeId,  \* the Like table's primary-key sequence
    now,         \* timezone.now(), in days
    response,    \* the last request served from start to end and its Response
    before,      \* the Like table as it was when the last completed request began
    req,         \* req[w]: the request worker w is serving and its local variables
    events,      \* Event rows: [id, organizer]
    interests,   \* EventInterest rows: [id, user, event]
    nextInterestId,  \* the EventInterest table's primary-key sequence
    beforeInterests  \* the EventInterest table when the last completed request began

eventVars == <<events, interests, nextInterestId, beforeInterests>>

vars == <<following, posts, likes, nextLikeId, now, response, before, req,
          events, interests, nextInterestId, beforeInterests>>

\* ------------------------------------------------------------- responses
\* Response(body, status): message names the body's 'message' / 'error' text,
\* count is the body's likes_count (-1 when the body has none), feed is the
\* list of post ids of a feed response (empty otherwise).
Response(op, user, arg, status, message, count) ==
    [op |-> op, user |-> user, arg |-> arg, status |-> status,
     message |-> message, count |-> count, feed |-> <<>>]

NoResponse == Response("none", 0, 0, 0, "none", -1)

\* permission_classes([permissions.IsAuthenticated])
IsAuthenticated(u) == u \in Users

NotAuthenticated(op, u, arg) == Response(op, u, arg, 401, "not_authenticated", -1)

\* a worker between requests; like and created are the local variables of
\* PostLikeView.create, result is the Response the worker returned
Idle == [pc |-> "idle", user |-> 0, pk |-> 0, like |-> 0, created |-> FALSE,
         result |-> NoResponse]

\* ------------------------------------------------------- follow relation
\* request.user.following.all() / .filter(id=...).exists()
Follows(f, u, t) == t \in f[u]

\* request.user.following.add(t): the relation is directed, only u -> t is added
FollowingAdd(f, u, t) == [f EXCEPT ![u] = @ \cup {t}]

\* request.user.following.remove(t)
FollowingRemove(f, u, t) == [f EXCEPT ![u] = @ \ {t}]

\* follow_user with the 'You cannot follow yourself' branch left out
follow_user_noself(f, u, user_id) ==
    IF ~IsAuthenticated(u)
    THEN [following |-> f, response |-> NotAuthenticated("follow", u, user_id)]
    ELSE IF user_id \notin Users
    THEN [following |-> f,
          response |-> Response("follow", u, user_id, 404, "user_not_found", -1)]
    ELSE IF Follows(f, u, user_id)
    THEN [following |-> f,
          response |-> Response("follow", u, user_id, 400, "already_follow", -1)]
    ELSE [following |-> FollowingAdd(f, u, user_id),
          response |-> Response("follow", u, user_id, 200, "now_following", -1)]

\* follow_user with the 'You already follow' branch left out
follow_user_nodup(f, u, user_id) ==
    IF ~IsAuthenticated(u)
    THEN [following |-> f, response |-> NotAuthenticated("follow", u, user_id)]
    ELSE IF user_id \notin Users
    THEN [following |-> f,
          response |-> Response("follow", u, user_id, 404, "user_not_found", -1)]
    ELSE IF user_id = u
    THEN [following |-> f,
          response |-> Response("follow", u, user_id, 400, "cannot_follow_yourself", -1)]
    ELSE [following |-> FollowingAdd(f, u, user_id),
          response |-> Response("follow", u, user_id, 200, "now_following", -1)]

\* follow_user(request, user_id): the new relation and the Response
follow_user(f, u, user_id) ==
    IF ~IsAuthenticated(u)
    THEN [following |-> f, response |-> NotAuthenticated("follow", u, user_id)]
    ELSE IF user_id \notin Users
    THEN [following |-> f,
          response |-> Response("follow", u, user_id, 404, "user_not_found", -1)]
    ELSE IF Follows(f, u, user_id)
    THEN [following |-> f,
          response |-> Response("follow", u, user_id, 400, "already_follow", -1)]
    ELSE IF user_id = u
    THEN [following |-> f,
          response |-> Response("follow", u, user_id, 400, "cannot_follow_yourself", -1)]
    ELSE [following |-> FollowingAdd(f, u, user_id),
          response |-> Response("follow", u, user_id, 200, "now_following", -1)]

\* unfollow_user with the 'You do not follow' branch left out
unfollow_user_nocheck(f, u, user_id) ==
    IF ~IsAuthenticated(u)
    THEN [following |-> f, response |-> NotAuthenticated("unfollow", u, user_id)]
    ELSE IF user_id \notin Users
    THEN [following |-> f,
          response |-> Response("unfollow", u, user_id, 400, "user_not_found", -1)]
    ELSE [following |-> FollowingRemove(f, u, user_id),
          response |-> Response("unfollow", u, user_id, 200, "unfollowed", -1)]

\* unfollow_user(request, user_id)
unfollow_user(f, u, user_id) ==
    IF ~IsAuthenticated(u)
    THEN [following |-> f, response |-> NotAuthenticated("unfollow", u, user_id)]
    ELSE IF user_id \notin Users
    THEN [following |-> f,
          response |-> Response("unfollow", u, user_id, 400, "user_not_found", -1)]
    ELSE IF ~Follows(f, u, user_id)
    THEN [following |-> f,
          response |-> Response("unfollow", u, user_id, 400, "do_not_follow", -1)]
    ELSE [following |-> FollowingRemove(f, u, user_id),
          response |-> Response("unfollow", u, user_id, 200, "unfollowed", -1)]

\* ------------------------------------------------------------ Like table
\* the primary keys of the Post rows
PostPks(P) == {x.id : x \in P}

\* Like.objects.get(post=post, user=user): the matching rows
LikeGet(L, u, p) == {l \in L : l.user = u /\ l.post = p}

\* no uniqueness constraint on (user, post)
UniqueViolation_off(L, u, p) == FALSE

\* Meta.unique_together = ('user', 'post'): the INSERT of (u, p) is refused
UniqueViolation(L, u, p) == LikeGet(L, u, p) # {}

\* INSERT of a Like row with primary key id
LikeInsert(L, id, u, p) == L \cup {[id |-> id, user |-> u, post |-> p]}

\* like.delete(): DELETE ... WHERE id = like.id (no row, no error)
LikeDelete(L, id) == {l \in L : l.id # id}

\* post.likes.count()
LikesCount(L, p) == Cardinality({l \in L : l.post = p})

\* Like.objects.get_or_create(post=post, user=request.user) with no other
\* statement between its get and its create
get_or_create(L, nid, u, p) ==
    LET found == LikeGet(L, u, p) IN
    IF Cardinality(found) > 1
    THEN [likes |-> L, nextLikeId |-> nid, like |-> 0, created |-> FALSE,
          error |-> "multiple_objects"]
    ELSE IF found # {}
    THEN [likes |-> L, nextLikeId |-> nid, like |-> (CHOOSE l \in found : TRUE).id,
          created |-> FALSE, error |-> "none"]
    ELSE [likes |-> LikeInsert(L, nid, u, p), nextLikeId |-> nid + 1, like |-> nid,
          created |-> TRUE, error |-> "none"]

LikeResponse(u, pk, created, L) ==
    IF created
    THEN Response("like", u, pk, 201, "liked", LikesCount(L, pk))
    ELSE Response("like", u, pk, 200, "unliked", LikesCount(L, pk))

\* PostLikeView.create that reports the count read before like.delete()
post_like_stale(P, L, nid, u, pk) ==
    IF ~IsAuthenticated(u)
    THEN [likes |-> L, nextLikeId |-> nid, response |-> NotAuthenticated("like", u, pk)]
    ELSE IF pk \notin PostPks(P)
    THEN [likes |-> L, nextLikeId |-> nid,
          response |-> Response("like", u, pk, 404, "not_found", -1)]
    ELSE LET g == get_or_create(L, nid, u, pk)
             L2 == IF g.created THEN g.likes ELSE LikeDelete(g.likes, g.like)
         IN  [likes |-> L2, nextLikeId |-> g.nextLikeId,
              response |-> LikeResponse(u, pk, g.created, g.likes)]

\* PostLikeView.create that leaves the existing Like in place
post_like_nodelete(P, L, nid, u, pk) ==
    IF ~IsAuthenticated(u)
    THEN [likes |-> L, nextLikeId |-> nid, response |-> NotAuthenticated("like", u, pk)]
    ELSE IF pk \notin PostPks(P)
    THEN [likes |-> L, nextLikeId |-> nid,
          response |-> Response("like", u, pk, 404, "not_found", -1)]
    ELSE LET g == get_or_create(L, nid, u, pk)
         IN  [likes |-> g.likes, nextLikeId |-> g.nextLikeId,
              response |-> LikeResponse(u, pk, g.created, g.likes)]

\* PostLikeView.create whose unlike deletes post.likes.all() instead of like
post_like_clearpost(P, L, nid, u, pk) ==
    IF ~IsAuthenticated(u)
    THEN [likes |-> L, nextLikeId |-> nid, response |-> NotAuthenticated("like", u, pk)]
    ELSE IF pk \notin PostPks(P)
    THEN [likes |-> L, nextLikeId |-> nid,
          response |-> Response("like", u, pk, 404, "not_found", -1)]
    ELSE LET g == get_or_create(L, nid, u, pk)
             L2 == IF g.created THEN g.likes ELSE {l \in g.likes : l.post # pk}
         IN  [likes |-> L2, nextLikeId |-> g.nextLikeId,
              response |-> LikeResponse(u, pk, g.created, L2)]

\* PostLikeView.create(request, pk) served with no other request in between:
\* the new Like table, the new primary-key sequence and the Response
post_like(P, L, nid, u, pk) ==
    IF ~IsAuthenticated(u)
    THEN [likes |-> L, nextLikeId |-> nid, response |-> NotAuthenticated("like", u, pk)]
    ELSE IF pk \notin PostPks(P)
    THEN [likes |-> L, nextLikeId |-> nid,
          response |-> Response("like", u, pk, 404, "not_found", -1)]
    ELSE LET g == get_or_create(L, nid, u, pk) IN
         IF g.error # "none"
         THEN [likes |-> L, nextLikeId |-> nid,
               response |-> Response("like", u, pk, 500, g.error, -1)]
         ELSE LET L2 == IF g.created THEN g.likes ELSE LikeDelete(g.likes, g.like)
              IN  [likes |-> L2, nextLikeId |-> g.nextLikeId,
                   response |-> LikeResponse(u, pk, g.created, L2)]

\* ------------------------------------------------------------ the store
\* the Event and EventInterest tables are empty
NoEvents ==
    /\ events = {}
    /\ interests = {}
    /\ nextInterestId = 1
    /\ beforeInterests = {}

Init ==
    /\ following = [u \in Users |-> {}]
    /\ posts = {}
    /\ likes = {}
    /\ nextLikeId = 1
    /\ now = 0
    /\ response = NoResponse
    /\ before = {}
    /\ req = [w \in Workers |-> Idle]
    /\ NoEvents

\* POST /follow/<user_id>/ served from start to end
FollowUser(u, user_id) ==
    LET r == follow_user(following, u, user_id) IN
    /\ following' = r.following
    /\ response' = r.response
    /\ before' = likes
    /\ UNCHANGED <<posts, likes, nextLikeId, now, req>>
    /\ UNCHANGED eventVars

\* POST /unfollow/<user_id>/ served from start to end
UnfollowUser(u, user_id) ==
    LET r == unfollow_user(following, u, user_id) IN
    /\ following' = r.following
    /\ response' = r.response
    /\ before' = likes
    /\ UNCHANGED <<posts, likes, nextLikeId, now, req>>
    /\ UNCHANGED eventVars

\* POST /posts/create/ with a valid payload: the author is request.user,
\* created_at is the time of the INSERT (auto_now_add); no post is deleted
\* here, so the next primary key is the number of rows plus one
PostCreate(u) ==
    /\ Cardinality(posts) < MaxPosts
    /\ IF IsAuthenticated(u)
       THEN /\ posts' = posts \cup {[id |-> Cardinality(posts) + 1, user |-> u,
                                      created_at |-> now]}
            /\ response' = Response("post", u, Cardinality(posts) + 1, 201, "created", -1)
       ELSE /\ posts' = posts
            /\ response' = NotAuthenticated("post", u, 0)
    /\ before' = likes
    /\ UNCHANGED <<following, likes, nextLikeId, now, req>>
    /\ UNCHANGED eventVars

\* POST /posts/<pk>/like/ served from start to end
PostLike(u, pk) ==
    LET r == post_like(posts, likes, nextLikeId, u, pk) IN
    /\ r.nextLikeId <= MaxLikeId + 1
    /\ likes' = r.likes
    /\ nextLikeId' = r.nextLikeId
    /\ response' = r.response
    /\ before' = likes
    /\ UNCHANGED <<following, posts, now, req>>
    /\ UNCHANGED eventVars

\* the posts exist before the like requests arrive
InitPosts ==
    /\ following = [u \in Users |-> {}]
    /\ posts = {[id |-> i, user |-> 1, created_at |-> 0] : i \in 1..MaxPosts}
    /\ likes = {}
    /\ nextLikeId = 1
    /\ now = 0
    /\ response = NoResponse
    /\ before = {}
    /\ req = [w \in Workers |-> Idle]
    /\ NoEvents

NextLike == \E u \in Requesters, pk \in PostIds : PostLike(u, pk)

\* like requests served one after the other
SpecLike == InitPosts /\ [][NextLike]_vars

\* -------------------------------------------------------- event interest
\* the primary keys of the Event rows
EventPks(E) == {x.id : x \in E}

\* EventInterest.objects.get(event=event, user=user): the matching rows
InterestGet(I, u, e) == {i \in I : i.user = u /\ i.event = e}

\* INSERT of an EventInterest row with primary key id
InterestInsert(I, id, u, e) == I \cup {[id |-> id, user |-> u, event |-> e]}

\* interest.delete(): DELETE ... WHERE id = interest.id
InterestDelete(I, id) == {i \in I : i.id # id}

\* event.interests.count()
InterestCount(I, e) == Cardinality({i \in I : i.event = e})

\* EventInterest.objects.get_or_create(event=event, user=request.user) with no
\* other statement between its get and its create
interest_get_or_create(I, nid, u, e) ==
    LET found == InterestGet(I, u, e) IN
    IF Cardinality(found) > 1
    THEN [interests |-> I, nextInterestId |-> nid, interest |-> 0, created |-> FALSE,
          error |-> "multiple_objects"]
    ELSE IF found # {}
    THEN [interests |-> I, nextInterestId |-> nid,
          interest |-> (CHOOSE i \in found : TRUE).id, created |-> FALSE,
          error |-> "none"]
    ELSE [interests |-> InterestInsert(I, nid, u, e), nextInterestId |-> nid + 1,
          interest |-> nid, created |-> TRUE, error |-> "none"]

\* the Response of EventInterestView.create; count is the body's interest_count
InterestResponse(u, pk, created, I) ==
    IF created
    THEN Response("interest", u, pk, 201, "interest_added", InterestCount(I, pk))
    ELSE Response("interest", u, pk, 200, "interest_removed", InterestCount(I, pk))

\* EventInterestView.create that leaves the existing interest in place
event_interest_nodelete(E, I, nid, u, pk) ==
    IF ~IsAuthenticated(u)
    THEN [interests |-> I, nextInterestId |-> nid,
          response |-> NotAuthenticated("interest", u, pk)]
    ELSE IF pk \notin EventPks(E)
    THEN [interests |-> I, nextInterestId |-> nid,
          response |-> Response("interest", u, pk, 404, "not_found", -1)]
    ELSE LET g == interest_get_or_create(I, nid, u, pk)
         IN  [interests |-> g.interests, nextInterestId |-> g.nextInterestId,
              response |-> InterestResponse(u, pk, g.created, g.interests)]

\* EventInterestView.create(request, pk) served with no other request in
\* between: the new table, the new primary-key sequence and the Response
event_interest(E, I, nid, u, pk) ==
    IF ~IsAuthenticated(u)
    THEN [interests |-> I, nextInterestId |-> nid,
          response |-> NotAuthenticated("interest", u, pk)]
    ELSE IF pk \notin EventPks(E)
    THEN [interests |-> I, nextInterestId |-> nid,
          response |-> Response("interest", u, pk, 404, "not_found", -1)]
    ELSE LET g == interest_get_or_create(I, nid, u, pk) IN
         IF g.error # "none"
         THEN [interests |-> I, nextInterestId |-> nid,
               response |-> Response("interest", u, pk, 500, g.error, -1)]
         ELSE LET I2 == IF g.created THEN g.interests
                        ELSE InterestDelete(g.interests, g.interest)
              IN  [interests |-> I2, nextInterestId |-> g.nextInterestId,
                   response |-> InterestResponse(u, pk, g.created, I2)]

\* POST /events/<pk>/interest/ served from start to end
EventInterestToggle(u, pk) ==
    LET r == event_interest(events, interests, nextInterestId, u, pk) IN
    /\ r.nextInterestId <= MaxInterestId + 1
    /\ interests' = r.interests
    /\ nextInterestId' = r.nextInterestId
    /\ response' = r.response
    /\ beforeInterests' = interests
    /\ UNCHANGED <<following, posts, likes, nextLikeId, now, before, req, events>>

\* the events exist before the interest requests arrive
InitEvents ==
    /\ following = [u \in Users |-> {}]
    /\ posts = {}
    /\ likes = {}
    /\ nextLikeId = 1
    /\ now = 0
    /\ response = NoResponse
    /\ before = {}
    /\ req = [w \in Workers |-> Idle]
    /\ events = {[id |-> i, organizer |-> 1] : i \in 1..MaxEvents}
    /\ interests = {}
    /\ nextInterestId = 1
    /\ beforeInterests = {}

NextInterest == \E u \in Requesters, pk \in EventIds : EventInterestToggle(u, pk)

\* interest requests served one after the other
SpecInterest == InitEvents /\ [][NextInterest]_vars

\* ------------------------------------------------------------------ feed
\* A queryset is the SELECT list of its statement and the rows it matches.

\* the columns Django selects for Post.objects...: the fields of the model
PostColumns == {"id", "user", "created_at"}

\* Post.objects.filter(user__in=self.request.user.following.all())
following_posts(P, f, viewer) ==
    [select |-> PostColumns,
     rows |-> {x \in P : x.user \in f[viewer]}]

\* Post.objects.annotate(likes_count=Count('likes')).filter(likes_count__gte=5):
\* the annotation is one more column of the SELECT list
popular_posts(P, L) ==
    [select |-> PostColumns \cup {"likes_count"},
     rows |-> {x \in P : LikesCount(L, x.id) >= PopularLikes}]

\* Post.objects.filter(created_at__gte=timezone.now() - timezone.timedelta(days=7))
recent_posts(P, t) ==
    [select |-> PostColumns,
     rows |-> {x \in P : x.created_at >= t - RecentDays}]

\* q1.union(q2, q3): SELECT ... UNION SELECT ... UNION SELECT ...; the
\* querysets carry no values() list, so each keeps its own SELECT list, and
\* the database refuses a compound statement whose SELECTs differ in their
\* number of columns; otherwise UNION keeps each distinct row once
union(q1, q2, q3) ==
    IF \/ Cardinality(q2.select) # Cardinality(q1.select)
       \/ Cardinality(q3.select) # Cardinality(q1.select)
    THEN [error |-> TRUE, rows |-> {}]
    ELSE [error |-> FALSE, rows |-> q1.rows \cup q2.rows \cup q3.rows]

\* .order_by('-created_at'): every sequence of the rows with created_at
\* descending; the statement names no second key, so rows with equal
\* created_at come in the order the database happens to produce
order_by_created_desc(R) ==
    {s \in [1..Cardinality(R) -> R] :
        /\ \A i, j \in 1..Cardinality(R) : i # j => s[i] # s[j]
        /\ \A i, j \in 1..Cardinality(R) : i < j => s[i].created_at >= s[j].created_at}

\* PostFeedView.get_queryset()
get_queryset(P, L, f, t, viewer) ==
    union(following_posts(P, f, viewer), popular_posts(P, L), recent_posts(P, t))

\* a feed view that also deletes the viewer's Likes while it reads
PostFeed_writes(u) ==
    /\ response' = IF IsAuthenticated(u)
                   THEN Response("feed", u, 0, 500, "database_error", -1)
                   ELSE NotAuthenticated("feed", u, 0)
    /\ likes' = {l \in likes : l.user # u}
    /\ before' = likes
    /\ UNCHANGED <<following, posts, nextLikeId, now, req>>
    /\ UNCHANGED eventVars

\* GET /posts/feed/: ListAPIView.list evaluates get_queryset(); a database
\* error is not handled by the view and becomes a 500 response
PostFeed(u) ==
    /\ IF ~IsAuthenticated(u)
       THEN response' = NotAuthenticated("feed", u, 0)
       ELSE LET q == get_queryset(posts, likes, following, now, u) IN
            IF q.error
            THEN response' = Response("feed", u, 0, 500, "database_error", -1)
            ELSE \E s \in order_by_created_desc(q.rows) :
                    response' = [Response("feed", u, 0, 200, "ok", -1)
                                    EXCEPT !.feed = [i \in 1..Len(s) |-> s[i].id]]
    /\ before' = likes
    /\ UNCHANGED <<following, posts, likes, nextLikeId, now, req>>
    /\ UNCHANGED eventVars

\* time passes between two requests
Tick(d) ==
    /\ now + d <= MaxTime
    /\ now' = now + d
    /\ UNCHANGED <<following, posts, likes, nextLikeId, response, before, req>>
    /\ UNCHANGED eventVars

\* the viewer, user 1, follows some of the other users
InitFeed ==
    /\ following \in {[u \in Users |-> IF u = 1 THEN S ELSE {}] : S \in SUBSET (Users \ {1})}
    /\ posts = {}
    /\ likes = {}
    /\ nextLikeId = 1
    /\ now = 0
    /\ response = NoResponse
    /\ before = {}
    /\ req = [w \in Workers |-> Idle]
    /\ NoEvents

NextFeed ==
    \/ \E u \in Requesters : PostCreate(u)
    \/ \E d \in 1..MaxTime : Tick(d)
    \/ \E u \in Requesters : PostFeed(u)

\* posts are created, time passes and feeds are requested
SpecFeed == InitFeed /\ [][NextFeed]_vars

\* ------------------------------------- concurrent POST /posts/<pk>/like/
\* Two workers serve one request each, statement by statement; when both have
\* answered, the next pair of requests arrives.

Finish(w, r) == req' = [req EXCEPT ![w].pc = "done", ![w].result = r]

\* permission check and get_object_or_404(Post, pk=pk)
LikeBegin(w, u, pk) ==
    /\ req[w].pc = "idle"
    /\ IF ~IsAuthenticated(u)
       THEN /\ req' = [req EXCEPT ![w] = [Idle EXCEPT !.pc = "done", !.user = u, !.pk = pk,
                                             !.result = NotAuthenticated("like", u, pk)]]
       ELSE IF pk \notin PostPks(posts)
       THEN /\ req' = [req EXCEPT ![w] = [Idle EXCEPT !.pc = "done", !.user = u, !.pk = pk,
                             !.result = Response("like", u, pk, 404, "not_found", -1)]]
       ELSE /\ req' = [req EXCEPT ![w] = [Idle EXCEPT !.pc = "get", !.user = u, !.pk = pk]]
    /\ UNCHANGED <<following, posts, likes, nextLikeId, now, response, before>>
    /\ UNCHANGED eventVars

\* get_or_create: self.get(**kwargs)
LikeSelect(w) ==
    /\ req[w].pc = "get"
    /\ LET found == LikeGet(likes, req[w].user, req[w].pk) IN
       IF Cardinality(found) > 1
       THEN Finish(w, Response("like", req[w].user, req[w].pk, 500, "multiple_objects", -1))
       ELSE IF found = {}
       THEN /\ req' = [req EXCEPT ![w].pc = "create"]
       ELSE /\ req' = [req EXCEPT ![w].pc = "delete", ![w].created = FALSE,
                                   ![w].like = (CHOOSE l \in found : TRUE).id]
    /\ UNCHANGED <<following, posts, likes, nextLikeId, now, response, before>>
    /\ UNCHANGED eventVars

\* get_or_create: self.create(**params) inside transaction.atomic; the
\* IntegrityError of the unique constraint leads to the second get
LikeCreate(w) ==
    /\ req[w].pc = "create"
    /\ IF UniqueViolation(likes, req[w].user, req[w].pk)
       THEN /\ req' = [req EXCEPT ![w].pc = "reget"]
            /\ UNCHANGED <<likes, nextLikeId>>
       ELSE /\ nextLikeId <= MaxLikeId
            /\ likes' = LikeInsert(likes, nextLikeId, req[w].user, req[w].pk)
            /\ nextLikeId' = nextLikeId + 1
            /\ req' = [req EXCEPT ![w].pc = "count", ![w].created = TRUE,
                                   ![w].like = nextLikeId]
    /\ UNCHANGED <<following, posts, now, response, before>>
    /\ UNCHANGED eventVars

\* get_or_create: the get after the IntegrityError; the error is raised again
\* when the row is gone
LikeReselect(w) ==
    /\ req[w].pc = "reget"
    /\ LET found == LikeGet(likes, req[w].user, req[w].pk) IN
       IF found = {}
       THEN Finish(w, Response("like", req[w].user, req[w].pk, 500, "integrity_error", -1))
       ELSE /\ req' = [req EXCEPT ![w].pc = "delete", ![w].created = FALSE,
                                   ![w].like = (CHOOSE l \in found : TRUE).id]
    /\ UNCHANGED <<following, posts, likes, nextLikeId, now, response, before>>
    /\ UNCHANGED eventVars

\* if not created: like.delete()
LikeRemove(w) ==
    /\ req[w].pc = "delete"
    /\ likes' = LikeDelete(likes, req[w].like)
    /\ req' = [req EXCEPT ![w].pc = "count"]
    /\ UNCHANGED <<following, posts, nextLikeId, now, response, before>>
    /\ UNCHANGED eventVars

\* return Response({... 'likes_count': post.likes.count()}, status=status_code)
LikeCount(w) ==
    /\ req[w].pc = "count"
    /\ Finish(w, LikeResponse(req[w].user, req[w].pk, req[w].created, likes))
    /\ UNCHANGED <<following, posts, likes, nextLikeId, now, response, before>>
    /\ UNCHANGED eventVars

AllDone == \A w \in Workers : req[w].pc = "done"

\* both responses are sent; the workers take the next requests
NextRequests ==
    /\ AllDone
    /\ req' = [w \in Workers |-> Idle]
    /\ before' = likes
    /\ UNCHANGED <<following, posts, likes, nextLikeId, now, response>>
    /\ UNCHANGED eventVars

NextConc ==
    \/ \E w \in Workers, u \in Requesters, pk \in PostIds : LikeBegin(w, u, pk)
    \/ \E w \in Workers : LikeSelect(w)
    \/ \E w \in Workers : LikeCreate(w)
    \/ \E w \in Workers : LikeReselect(w)
    \/ \E w \in Workers : LikeRemove(w)
    \/ \E w \in Workers : LikeCount(w)
    \/ NextRequests

\* pairs of like requests served concurrently
SpecConc == InitPosts /\ [][NextConc]_vars

\* ----------------------------------------- concurrent POST follow requests
\* Two workers serve one follow request each, statement by statement; pk is
\* the user_id of the request.

\* permission check and User.objects.get(id=user_id)
FollowBegin(w, u, user_id) ==
    /\ req[w].pc = "idle"
    /\ IF ~IsAuthenticated(u)
       THEN req' = [req EXCEPT ![w] = [Idle EXCEPT !.pc = "done", !.user = u, !.pk = user_id,
                            !.result = NotAuthenticated("follow", u, user_id)]]
       ELSE IF user_id \notin Users
       THEN req' = [req EXCEPT ![w] = [Idle EXCEPT !.pc = "done", !.user = u, !.pk = user_id,
                 !.result = Response("follow", u, user_id, 404, "user_not_found", -1)]]
       ELSE req' = [req EXCEPT ![w] = [Idle EXCEPT !.pc = "check", !.user = u,
                                                   !.pk = user_id]]
    /\ UNCHANGED <<following, posts, likes, nextLikeId, now, response, before>>
    /\ UNCHANGED eventVars

\* if user_to_follow in request.user.following.all(), then
\* if user_to_follow == request.user
FollowCheck(w) ==
    /\ req[w].pc = "check"
    /\ IF Follows(following, req[w].user, req[w].pk)
       THEN Finish(w, Response("follow", req[w].user, req[w].pk, 400, "already_follow", -1))
       ELSE IF req[w].pk = req[w].user
       THEN Finish(w, Response("follow", req[w].user, req[w].pk, 400,
                               "cannot_follow_yourself", -1))
       ELSE req' = [req EXCEPT ![w].pc = "add"]
    /\ UNCHANGED <<following, posts, likes, nextLikeId, now, response, before>>
    /\ UNCHANGED eventVars

\* request.user.following.add(user_to_follow) and the 200 response; add()
\* inserts the edge unless the relation already holds it
FollowAdd(w) ==
    /\ req[w].pc = "add"
    /\ following' = FollowingAdd(following, req[w].user, req[w].pk)
    /\ Finish(w, Response("follow", req[w].user, req[w].pk, 200, "now_following", -1))
    /\ UNCHANGED <<posts, likes, nextLikeId, now, response, before>>
    /\ UNCHANGED eventVars

NextConcFollow ==
    \/ \E w \in Workers, u \in Requesters, t \in UserIds : FollowBegin(w, u, t)
    \/ \E w \in Workers : FollowCheck(w)
    \/ \E w \in Workers : FollowAdd(w)
    \/ NextRequests

\* pairs of follow requests served concurrently
SpecConcFollow == Init /\ [][NextConcFollow]_vars

NextFollow ==
    \/ \E u \in Requesters, t \in UserIds : FollowUser(u, t)
    \/ \E u \in Requesters, t \in UserIds : UnfollowUser(u, t)

SpecFollow == Init /\ [][NextFollow]_vars

\* ---------------------------------------------- likes, follows and feeds
\* follow and unfollow requests of user 1, like requests of users 1 and 2
\* (each also with no token) and feed requests, served one after the other
NextFrame ==
    \/ \E u \in 0..1, t \in UserIds : FollowUser(u, t)
    \/ \E u \in 0..1, t \in UserIds : UnfollowUser(u, t)
    \/ \E u \in 0..2, pk \in PostIds : PostLike(u, pk)
    \/ \E u \in Requesters : PostFeed(u)

SpecFrame == InitPosts /\ [][NextFrame]_vars

\* ------------------------------------------------------ the whole system
\* every request served from start to end, one after the other
Next ==
    \/ \E u \in Requesters, t \in UserIds : FollowUser(u, t)
    \/ \E u \in Requesters, t \in UserIds : UnfollowUser(u, t)
    \/ \E u \in Requesters : PostCreate(u)
    \/ \E u \in Requesters, pk \in PostIds : PostLike(u, pk)
    \/ \E u \in Requesters : PostFeed(u)
    \/ \E d \in 1..MaxTime : Tick(d)
    \/ \E u \in Requesters, pk \in EventIds : EventInterestToggle(u, pk)

Spec == Init /\ [][Next]_vars

\* ------------------------------------------------ properties: follow
\* the follow relation as a set of directed edges
Edges(f) == {e \in Users \X Users : e[2] \in f[e[1]]}

\* a step that serves a request of kind op from an authenticated user for an
\* existing target
Served(op) ==
    /\ response'.op = op
    /\ IsAuthenticated(response'.user)
    /\ response'.arg \in Users

C1_NoSelfFollow == \A u \in Users : u \notin following[u]

C1_SelfFollowRejected ==
    (Served("follow") /\ response'.arg = response'.user) =>
        /\ response'.status = 400
        /\ following' = following

\* C1: after any sequence of Follow and Unfollow requests no user is a member
\* of their own following set, and a Follow request whose target is the
\* requesting user is rejected (400) and leaves the relation as it was.
C1_Theorem == []C1_NoSelfFollow /\ [][C1_SelfFollowRejected]_vars

C1_Witness ==
    /\ response.op = "follow"
    /\ response.user = response.arg
    /\ response.message = "cannot_follow_yourself"
    /\ Edges(following) # {}

\* what a step that serves a Follow request does
C9_FollowStep ==
    Served("follow") =>
        LET u == response'.user
            t == response'.arg
        IN  /\ Follows(following, u, t) =>
                /\ response'.status = 400
                /\ response'.message = "already_follow"
                /\ Edges(following') = Edges(following)
            /\ t = u =>
                /\ response'.status = 400
                /\ response'.message = "cannot_follow_yourself"
                /\ Edges(following') = Edges(following)
            /\ (~Follows(following, u, t) /\ t # u) =>
                /\ response'.status = 200
                /\ <<u, t>> \notin Edges(following)
                /\ Edges(following') = Edges(following) \cup {<<u, t>>}

\* C9: Follow(user, target) on an existing target fails with AlreadyFollowing
\* when target is in user.following, fails with SelfFollowError when target is
\* the user, both leaving the relation unchanged; otherwise it succeeds and
\* adds exactly the edge user -> target.
C9_Theorem == [][C9_FollowStep]_vars

C9_Witness ==
    /\ response.op = "follow"
    /\ response.message = "already_follow"
    /\ Cardinality(Edges(following)) >= 2

\* what a step that serves an Unfollow request does
C10_UnfollowStep ==
    Served("unfollow") =>
        LET u == response'.user
            t == response'.arg
        IN  /\ ~Follows(following, u, t) =>
                /\ response'.status = 400
                /\ response'.message = "do_not_follow"
                /\ Edges(following') = Edges(following)
            /\ Follows(following, u, t) =>
                /\ response'.status = 200
                /\ Edges(following') = Edges(following) \ {<<u, t>>}
                /\ Edges(following') # Edges(following)

\* C10: Unfollow(user, target) fails with NotFollowing and changes nothing
\* when target is not in user.following; otherwise it succeeds and removes
\* exactly the edge user -> target.
C10_Theorem == [][C10_UnfollowStep]_vars

C10_Witness ==
    /\ response.op = "unfollow"
    /\ response.message = "do_not_follow"
    /\ IsAuthenticated(response.user)
    /\ response.arg \in Users
    /\ Edges(following) # {}

\* ------------------------------------------------ properties: likes
\* the (user, post) pairs that have a Like
Pairs(L) == {<<l.user, l.post>> : l \in L}

\* C2: in every reachable state of every interleaving of concurrent like
\* requests there is at most one Like row per (user, post) pair, and two
\* concurrent requests for the same pair never both create a Like.
C2_Theorem ==
    /\ \A l1, l2 \in likes :
           (l1.user = l2.user /\ l1.post = l2.post) => l1 = l2
    /\ \A w1, w2 \in Workers :
           (w1 # w2 /\ req[w1].user = req[w2].user /\ req[w1].pk = req[w2].pk)
               => ~(req[w1].created /\ req[w2].created)

\* one request created the Like, the concurrent one for the same pair ran into
\* the unique constraint
C2_Witness ==
    \E w1, w2 \in Workers :
        /\ req[w1].pc = "reget"
        /\ req[w2].created
        /\ req[w1].user = req[w2].user
        /\ req[w1].pk = req[w2].pk

\* the two requests of the workers, served one after the other in the order
\* <<w1, w2>> from the table `before`, end in the table and the responses seen
SerialOutcome(w1, w2) ==
    LET r1 == post_like(posts, before, nextLikeId, req[w1].user, req[w1].pk)
        r2 == post_like(posts, r1.likes, r1.nextLikeId, req[w2].user, req[w2].pk)
    IN  /\ Pairs(likes) = Pairs(r2.likes)
        /\ req[w1].result = r1.response
        /\ req[w2].result = r2.response

\* C3: two concurrent ToggleLike requests on the same (user, post) pair end in
\* the membership state and the reported results (liked/unliked, likes_count)
\* of some serial execution of the two requests.
C3_Serializable ==
    (/\ AllDone
     /\ \A w \in Workers : IsAuthenticated(req[w].user) /\ req[w].pk \in PostPks(posts)
     /\ \A w1, w2 \in Workers : req[w1].user = req[w2].user /\ req[w1].pk = req[w2].pk)
    => \E w1, w2 \in Workers : w1 # w2 /\ SerialOutcome(w1, w2)

\* a step that serves a like request of an authenticated user on an existing post
LikeServed ==
    /\ response'.op = "like"
    /\ IsAuthenticated(response'.user)
    /\ response'.arg \in PostPks(posts)

\* a like request that follows a like request for the same pair
C4_DoubleToggle ==
    (/\ LikeServed
     /\ response.op = "like"
     /\ response.status \in {200, 201}
     /\ response.user = response'.user
     /\ response.arg = response'.arg)
    => /\ (<<response'.user, response'.arg>> \in Pairs(likes'))
           <=> (<<response'.user, response'.arg>> \in Pairs(before))
       /\ response'.count = Cardinality({l \in before : l.post = response'.arg})

\* C4: two ToggleLike requests for the same (user, post) pair served in
\* sequence with no request in between return the pair to its original
\* membership state, and the likes_count of the second response is the post's
\* like count before the first request.
C4_Theorem == [][C4_DoubleToggle]_vars

\* the Like removed by the last request was the last row inserted, and the
\* post keeps the Like of another user
C4_Witness ==
    /\ response.op = "like"
    /\ response.message = "unliked"
    /\ response.count >= 1
    /\ \E l \in before : /\ l.user = response.user
                         /\ l.post = response.arg
                         /\ l.id = nextLikeId - 1

\* what a step that serves a like request does
C5_ToggleStep ==
    LikeServed =>
        LET u == response'.user
            p == response'.arg
        IN  /\ <<u, p>> \notin Pairs(likes) =>
                /\ response'.status = 201
                /\ response'.message = "liked"
                /\ <<u, p>> \in Pairs(likes')
            /\ <<u, p>> \in Pairs(likes) =>
                /\ response'.status = 200
                /\ response'.message = "unliked"
                /\ <<u, p>> \notin Pairs(likes')
            /\ response'.count = Cardinality({l \in likes' : l.post = p})

\* C5: ToggleLike(user, post) on an existing post creates the Like and reports
\* liked when the pair has none, otherwise deletes it and reports unliked; the
\* reported likes_count is the number of Likes on the post after the request.
C5_Theorem == [][C5_ToggleStep]_vars

C5_Witness ==
    /\ response.op = "like"
    /\ response.message = "liked"
    /\ response.count = 2
    /\ Cardinality(likes) = 2

\* ------------------------------------------------- properties: feed
\* the last request was a feed request of an authenticated viewer
FeedServed == response.op = "feed" /\ IsAuthenticated(response.user)

FeedIds == {response.feed[i] : i \in 1..Len(response.feed)}

\* the post row with primary key id
PostRow(id) == CHOOSE x \in posts : x.id = id

\* C6: the feed an authenticated viewer is given holds each post identity at
\* most once, whatever number of criteria the post satisfies.
C6_FeedDistinct ==
    FeedServed =>
        /\ response.status = 200
        /\ \A i, j \in 1..Len(response.feed) :
               i # j => response.feed[i] # response.feed[j]

\* C7: a post is in the feed exactly when its author is in viewer.following,
\* or it has at least 5 likes, or it was created no earlier than 7 days ago.
C7_FeedMembership ==
    FeedServed =>
        /\ response.status = 200
        /\ FeedIds = {x.id : x \in {y \in posts :
                          \/ y.user \in following[response.user]
                          \/ Cardinality({l \in likes : l.post = y.id}) >= 5
                          \/ y.created_at >= now - 7}}

\* C8: the feed is sorted by creation timestamp descending, posts with equal
\* creation timestamps by post identity descending.
C8_FeedOrder ==
    FeedServed =>
        /\ response.status = 200
        /\ FeedIds \subseteq PostPks(posts)
        /\ \A i, j \in 1..Len(response.feed) :
               i < j =>
                   LET a == PostRow(response.feed[i])
                       b == PostRow(response.feed[j])
                   IN  \/ a.created_at > b.created_at
                       \/ a.created_at = b.created_at /\ a.id > b.id

\* C11: ComposeFeed fails with NotAuthenticated when the viewer is absent and
\* in no other case: an authenticated viewer is always given a sequence, empty
\* when no post exists, that holds every popular or recent post even when
\* viewer.following is empty.
C11_FeedOnlyFailure ==
    response.op = "feed" =>
        IF IsAuthenticated(response.user)
        THEN /\ response.status = 200
             /\ posts = {} => response.feed = <<>>
             /\ {x.id : x \in {y \in posts :
                     \/ Cardinality({l \in likes : l.post = y.id}) >= 5
                     \/ y.created_at >= now - 7}} \subseteq FeedIds
        ELSE response.status = 401

\* ------------------------------------------------ properties: frame
\* what a step that serves a feed request leaves alone
C12_FeedStep ==
    response'.op = "feed" =>
        /\ posts' = posts
        /\ likes' = likes
        /\ \A x \in posts : LikesCount(likes', x.id) = LikesCount(likes, x.id)
        /\ following' = following

\* C12: ComposeFeed is a pure read: it leaves the posts, the Likes (and so
\* every like count) and every user's following relation unchanged.
C12_Theorem == [][C12_FeedStep]_vars

C12_Witness ==
    /\ response.op = "feed"
    /\ IsAuthenticated(response.user)
    /\ posts # {}
    /\ likes # {}
    /\ Edges(following) # {}

\* what a step that serves a like, follow or unfollow request leaves alone
C15_FrameStep ==
    /\ response'.op = "like" =>
           /\ following' = following
           /\ posts' = posts
           /\ {l \in likes' : <<l.user, l.post>> # <<response'.user, response'.arg>>}
                = {l \in likes : <<l.user, l.post>> # <<response'.user, response'.arg>>}
           /\ response'.arg \notin PostPks(posts) => likes' = likes
    /\ response'.op \in {"follow", "unfollow"} =>
           /\ likes' = likes
           /\ posts' = posts
           /\ Edges(following') \ {<<response'.user, response'.arg>>}
                = Edges(following) \ {<<response'.user, response'.arg>>}
           /\ response'.arg \notin Users => following' = following

\* C15: ToggleLike(u, p) leaves the Like of every other (user, post) pair and
\* every following relation unchanged, Follow/Unfollow(u, t) leaves every
\* other follow edge and every Like unchanged, and a request that names a
\* post or user that does not exist changes nothing.
C15_Theorem == [][C15_FrameStep]_vars

\* an unlike that leaves the Like of another user, with follow edges present
C15_Witness ==
    /\ response.op = "like"
    /\ response.message = "unliked"
    /\ likes # {}
    /\ Cardinality(Edges(following)) >= 2

\* ------------------------------------- properties: concurrent follows
\* C13: whatever the interleaving of two concurrent Follow requests for the
\* same (user, target) pair, the relation ends with the one edge
\* user -> target and at most one of the two requests reports that it created
\* the relation.
C13_ConcurrentFollow ==
    \A w1, w2 \in Workers :
        (/\ w1 # w2
         /\ req[w1].pc = "done" /\ req[w2].pc = "done"
         /\ req[w1].result.op = "follow" /\ req[w2].result.op = "follow"
         /\ req[w1].user = req[w2].user /\ req[w1].pk = req[w2].pk
         /\ IsAuthenticated(req[w1].user)
         /\ req[w1].pk \in Users \ {req[w1].user})
        => /\ <<req[w1].user, req[w1].pk>> \in Edges(following)
           /\ ~(req[w1].result.status = 200 /\ req[w2].result.status = 200)

\* ------------------------------------- properties: event interest
\* the (user, event) pairs that have an EventInterest
InterestPairs(I) == {<<i.user, i.event>> : i \in I}

\* a step that serves an interest request of an authenticated user on an
\* existing event
InterestServed ==
    /\ response'.op = "interest"
    /\ IsAuthenticated(response'.user)
    /\ response'.arg \in EventPks(events)

C14_AtMostOne ==
    \A i1, i2 \in interests :
        (i1.user = i2.user /\ i1.event = i2.event) => i1 = i2

\* what a step that serves an interest request does
C14_ToggleStep ==
    InterestServed =>
        LET u == response'.user
            e == response'.arg
        IN  /\ <<u, e>> \notin InterestPairs(interests) =>
                /\ response'.status = 201
                /\ <<u, e>> \in InterestPairs(interests')
            /\ <<u, e>> \in InterestPairs(interests) =>
                /\ response'.status = 200
                /\ <<u, e>> \notin InterestPairs(interests')
            /\ response'.count = Cardinality({i \in interests' : i.event = e})

\* an interest request that follows an interest request for the same pair
C14_DoubleToggle ==
    (/\ InterestServed
     /\ response.op = "interest"
     /\ response.status \in {200, 201}
     /\ response.user = response'.user
     /\ response.arg = response'.arg)
    => ((<<response'.user, response'.arg>> \in InterestPairs(interests'))
           <=> (<<response'.user, response'.arg>> \in InterestPairs(beforeInterests)))

\* C14: after any sequence of interest toggles there is at most one
\* EventInterest per (user, event) pair; a toggle creates the interest when
\* absent and deletes it when present; two consecutive toggles of a user on an
\* event restore the original state; the reported interest_count is the
\* number of interests on the event after the request.
C14_Theorem ==
    /\ []C14_AtMostOne
    /\ [][C14_ToggleStep]_vars
    /\ [][C14_DoubleToggle]_vars

\* the interest removed by the last request was the last row inserted, and
\* the event keeps the interest of another user
C14_Witness ==
    /\ response.op = "interest"
    /\ response.message = "interest_removed"
    /\ response.count >= 1
    /\ \E i \in beforeInterests : /\ i.user = response.user
                                  /\ i.event = response.arg
                                  /\ i.id = nextInterestId - 1
====
